---- MODULE Spec2Model ----
(***************************************************************************)
(* Model of the SubZap statement pipeline:                                 *)
(*   - pdf_parser.py  extract_transactions_from_pdf: PDF text assembly,    *)
(*     the call to the LLM collaborator, response sanitization, JSON       *)
(*     parsing and the fail-soft boundary;                                 *)
(*   - main.py  "Process & Save": the per-page ingest loop with its bulk   *)
(*     insert-or-ignore, commit, row count and error path, and             *)
(*     get_total_metrics.                                                  *)
(*                                                                         *)
(* Text is modelled at lexeme level.  A collaborator response is a         *)
(* sequence of lexemes: "[" "]" "," are the JSON punctuation, "Fj" is the  *)
(* markup ```json, "F" is the markup ```, "p" is a prose word, "t" is the  *)
(* JSON string literal "a```b" (a string value that contains the fence     *)
(* characters), "s" is the JSON string literal "ab", and "o1".."o5", "o2d" *)
(* are JSON object literals (their fields are given by ObjRec).  Page text *)
(* is a sequence of characters: "1" a decimal digit, "a" a letter, "\n".   *)
(***************************************************************************)
EXTENDS Integers, Sequences, FiniteSets, TLC

\* ------------------------------------------------------------------ bounds
MaxRespLen == 5
MaxPdfPages == 4
MaxUploadPages == 6
MaxLeaked == 2

\* ------------------------------------------------------- program constants
ExtractPageCap == 2
PromptCharCeiling == 30000
UploadPageCap == 5

\* --------------------------------------------------------- generic helpers
RECURSIVE SeqsUpTo(_, _)
SeqsUpTo(S, n) ==
    IF n = 0 THEN {<<>>}
    ELSE LET shorter == SeqsUpTo(S, n - 1)
         IN  shorter \cup {Append(q, x) : q \in {r \in shorter : Len(r) = n - 1}, x \in S}

Min(a, b) == IF a < b THEN a ELSE b

\* ------------------------------------------------ Python string primitives
\* str.find(c): 0-based index of the first occurrence, -1 when absent.
find(s, c) ==
    IF \E k \in 1..Len(s) : s[k] = c
    THEN (CHOOSE k \in 1..Len(s) : s[k] = c /\ \A m \in 1..(k - 1) : s[m] # c) - 1
    ELSE -1

\* str.rfind(c): 0-based index of the last occurrence, -1 when absent.
rfind(s, c) ==
    IF \E k \in 1..Len(s) : s[k] = c
    THEN (CHOOSE k \in 1..Len(s) : s[k] = c /\ \A m \in (k + 1)..Len(s) : s[m] # c) - 1
    ELSE -1

\* s[a:b] for a, b >= 0: the elements at 0-based positions a <= k < b.
Slice(s, a, b) ==
    LET hi == Min(b, Len(s))
    IN  IF a >= hi THEN <<>> ELSE SubSeq(s, a + 1, hi)

\* str.replace(lexeme, ""): every occurrence of the markup lexeme is removed.
\* The markup inside the string literal "t" is removed as well, which turns
\* the literal "a```b" into the literal "ab".
RECURSIVE replace_fence_json(_)
replace_fence_json(s) ==
    IF s = <<>> THEN <<>>
    ELSE IF Head(s) = "Fj" THEN replace_fence_json(Tail(s))
    ELSE <<Head(s)>> \o replace_fence_json(Tail(s))

RECURSIVE replace_fence(_)
replace_fence(s) ==
    IF s = <<>> THEN <<>>
    ELSE IF Head(s) = "F" THEN replace_fence(Tail(s))
    ELSE IF Head(s) = "t" THEN <<"s">> \o replace_fence(Tail(s))
    ELSE <<Head(s)>> \o replace_fence(Tail(s))

\* ------------------------------------------------------------- JSON values
Objects == {"o1", "o2", "o2d", "o3", "o4", "o5"}

ObjVal(tok) == [t |-> "obj", o |-> tok, items |-> <<>>]
StrVal(tok) == [t |-> "str", o |-> tok, items |-> <<>>]
ListVal(vs) == [t |-> "list", o |-> "", items |-> vs]
EmptyList == ListVal(<<>>)

ParseFail == [ok |-> FALSE, val |-> EmptyList, rest |-> <<>>]
ParseOk(v, r) == [ok |-> TRUE, val |-> v, rest |-> r]

\* json.loads on a lexeme sequence: a recursive-descent parse of one value.
RECURSIVE ParseValue(_)
RECURSIVE ParseElems(_, _)
ParseValue(s) ==
    IF s = <<>> THEN ParseFail
    ELSE IF Head(s) \in Objects THEN ParseOk(ObjVal(Head(s)), Tail(s))
    ELSE IF Head(s) \in {"s", "t"} THEN ParseOk(StrVal(Head(s)), Tail(s))
    ELSE IF Head(s) = "["
         THEN IF Tail(s) # <<>> /\ Head(Tail(s)) = "]"
              THEN ParseOk(EmptyList, Tail(Tail(s)))
              ELSE ParseElems(Tail(s), <<>>)
    ELSE ParseFail

ParseElems(s, acc) ==
    LET r == ParseValue(s)
    IN  IF ~r.ok \/ r.rest = <<>> THEN ParseFail
        ELSE IF Head(r.rest) = "]" THEN ParseOk(ListVal(Append(acc, r.val)), Tail(r.rest))
        ELSE IF Head(r.rest) = "," THEN ParseElems(Tail(r.rest), Append(acc, r.val))
        ELSE ParseFail

\* json.loads raises unless the whole text is exactly one JSON value.
json_loads(s) ==
    LET r == ParseValue(s)
    IN  IF r.ok /\ r.rest = <<>> THEN [ok |-> TRUE, val |-> r.val]
        ELSE [ok |-> FALSE, val |-> EmptyList]

\* ------------------------------------------- extractor: response handling
\* pdf_parser.py:61-68
CleanResponse(text) ==
    LET cleaned_json == replace_fence(replace_fence_json(text))
        start_idx == find(cleaned_json, "[")
        end_idx == rfind(cleaned_json, "]") + 1
    IN  IF start_idx # -1 /\ end_idx # -1
        THEN Slice(cleaned_json, start_idx, end_idx)
        ELSE cleaned_json

\* pdf_parser.py:59-75: the value returned for one collaborator outcome.
\* A collaborator failure and a json.loads failure both reach the except
\* branch, which returns [].
ParseResponse(outcome) ==
    IF outcome.kind # "ok" THEN EmptyList
    ELSE LET parsed == json_loads(CleanResponse(outcome.text))
         IN  IF parsed.ok THEN parsed.val ELSE EmptyList

\* ------------------------------------------- extractor: PDF text assembly
\* pdf_parser.py:22-25: the text of the pages before the break at i > 2,
\* each followed by "\n".
RECURSIVE ReadPages(_, _)
ReadPages(pages, i) ==
    IF pages = <<>> \/ i > ExtractPageCap THEN <<>>
    ELSE Head(pages) \o <<"\n">> \o ReadPages(Tail(pages), i + 1)

\* pdf_parser.py:36: the text block embedded in the prompt.
PromptText(text_content) == Slice(text_content, 0, PromptCharCeiling)


\* ------------------------------------------------- candidate records, rows
\* The fields carried by each JSON object literal of the model.
\*   o1: a complete record;
\*   o2: scenario record without raw_description and payment_mode;
\*   o2d: o2 with raw_description = merchant_name and payment_mode "Unknown";
\*   o3: a complete record whose raw_description equals o2's merchant_name,
\*       so its natural key equals o2's key after defaulting;
\*   o4: a record without date;
\*   o5: a second complete record with another natural key.
ObjRec(tok) ==
    CASE tok = "o1" -> [date |-> "2024-10-05", merchant_name |-> "Starbucks",
                        raw_description |-> "POS STARBUCKS", payment_mode |-> "Card",
                        amount |-> 250, category |-> "Food"]
      [] tok = "o2" -> [date |-> "2024-10-05", merchant_name |-> "Starbucks",
                        amount |-> 250, category |-> "Food"]
      [] tok = "o2d" -> [date |-> "2024-10-05", merchant_name |-> "Starbucks",
                         raw_description |-> "Starbucks", payment_mode |-> "Unknown",
                         amount |-> 250, category |-> "Food"]
      [] tok = "o3" -> [date |-> "2024-10-05", merchant_name |-> "Cafe",
                        raw_description |-> "Starbucks", payment_mode |-> "UPI",
                        amount |-> 250, category |-> "Food"]
      [] tok = "o4" -> [merchant_name |-> "Netflix", raw_description |-> "NETFLIX.COM",
                        payment_mode |-> "Card", amount |-> 199, category |-> "Fun"]
      [] OTHER      -> [date |-> "2024-11-01", merchant_name |-> "Netflix",
                        raw_description |-> "NETFLIX.COM", payment_mode |-> "Card",
                        amount |-> 199, category |-> "Fun"]

\* dict.get(key, default)
DictGet(r, key, default) == IF key \in DOMAIN r THEN r[key] ELSE default

\* main.py:96-97: the tuple built from one record r (a dict carrying the
\* four required keys).
ToTuple(r) ==
    [date |-> r["date"], merchant_name |-> r["merchant_name"],
     raw_description |-> DictGet(r, "raw_description", r["merchant_name"]),
     payment_mode |-> DictGet(r, "payment_mode", "Unknown"),
     amount |-> r["amount"], category |-> r["category"]]

RequiredKeys == {"date", "merchant_name", "amount", "category"}

\* `if new_data:` (main.py:94): Python truthiness of the parsed value.
Truthy(v) ==
    CASE v.t = "list" -> v.items # <<>>
      [] v.t = "obj"  -> DOMAIN ObjRec(v.o) # {}
      [] OTHER        -> TRUE

\* len() of the string a string literal denotes: "a```b" has 5 characters,
\* "ab" has 2.
StrLen(tok) == IF tok = "t" THEN 5 ELSE 2

\* `for r in new_data` (main.py:98): a list yields its items, a dict yields
\* its keys and a string yields its characters (strings in both cases).
Elements(v) ==
    CASE v.t = "list" -> v.items
      [] v.t = "obj"  -> [k \in 1..Cardinality(DOMAIN ObjRec(v.o)) |-> StrVal("s")]
      [] OTHER        -> [k \in 1..StrLen(v.o) |-> StrVal("s")]

\* main.py:95-99: the list comprehension.  r['date'] on a value that is not
\* a dict raises TypeError, on a dict without the key it raises KeyError;
\* the first element that raises ends the comprehension.
RECURSIVE BuildTuples(_)
BuildTuples(elems) ==
    IF elems = <<>> THEN [raised |-> "none", tuples |-> <<>>]
    ELSE LET r == Head(elems)
         IN  IF r.t # "obj" THEN [raised |-> "TypeError", tuples |-> <<>>]
             ELSE IF ~(RequiredKeys \subseteq DOMAIN ObjRec(r.o))
                  THEN [raised |-> "KeyError", tuples |-> <<>>]
             ELSE LET rest == BuildTuples(Tail(elems))
                  IN  IF rest.raised # "none" THEN rest
                      ELSE [raised |-> "none",
                            tuples |-> <<ToTuple(ObjRec(r.o))>> \o rest.tuples]

\* The natural key of the ON CONFLICT clause (main.py:105).
NaturalKey(row) == <<row.date, row.raw_description, row.amount>>

ConflictsWholeRow(tbl, row) == \E k \in 1..Len(tbl) : tbl[k] = row

\* One INSERT ... ON CONFLICT (date, raw_description, amount) DO NOTHING
\* (main.py:101-106) against table contents tbl.
Conflicts(tbl, row) == \E k \in 1..Len(tbl) : NaturalKey(tbl[k]) = NaturalKey(row)

RECURSIVE ExecuteManyNoConflict(_, _)
ExecuteManyNoConflict(tbl, tuples) ==
    IF tuples = <<>> THEN [table |-> tbl, rowcount |-> 0]
    ELSE LET next == ExecuteManyNoConflict(Append(tbl, Head(tuples)), Tail(tuples))
         IN  [table |-> next.table, rowcount |-> next.rowcount + 1]

RECURSIVE ExecuteManyBatchSize(_, _)
ExecuteManyBatchSize(tbl, tuples) ==
    IF tuples = <<>> THEN [table |-> tbl, rowcount |-> 0]
    ELSE LET row == Head(tuples)
             hit == \E k \in 1..Len(tbl) : <<tbl[k].date, tbl[k].raw_description, tbl[k].amount>>
                                             = <<row.date, row.raw_description, row.amount>>
             next == ExecuteManyBatchSize(IF hit THEN tbl ELSE Append(tbl, row), Tail(tuples))
         IN  [table |-> next.table, rowcount |-> next.rowcount + 1]

\* cur.executemany (main.py:107): the statement is executed once per tuple,
\* in order, each execution seeing the rows of the earlier ones; the cursor's
\* rowcount is the total over the executions.
RECURSIVE ExecuteMany(_, _)
ExecuteMany(tbl, tuples) ==
    IF tuples = <<>> THEN [table |-> tbl, rowcount |-> 0]
    ELSE LET row == Head(tuples)
             hit == Conflicts(tbl, row)
             next == ExecuteMany(IF hit THEN tbl ELSE Append(tbl, row), Tail(tuples))
         IN  [table |-> next.table, rowcount |-> next.rowcount + (IF hit THEN 0 ELSE 1)]

AbortedBatchPartial(tbl, tuples, j) == ExecuteMany(tbl, SubSeq(tuples, 1, j)).table

\* The persisted table after the insert of a batch raised before
\* conn.commit() returned (main.py:107-108, 124): the open transaction is
\* never committed, so none of the j rows already executed is persisted.
AbortedBatch(tbl, tuples, j) == tbl

\* ---------------------------------------------- the per-chunk extractor
\* parse_text_chunk(raw_text) is imported at main.py:8 and called at
\* main.py:92; it is the Transaction Extractor of the design, applied to one
\* page's text.

\* Response sanitization: the substring from the first "[" to the last "]"
\* inclusive; everything outside the span is discarded.  A response without
\* such a span has no payload.
SanitizeSpan(text) ==
    LET first == find(text, "[")
        lastb == rfind(text, "]")
    IN  IF first = -1 \/ lastb = -1 \/ lastb < first THEN <<>>
        ELSE Slice(text, first, lastb + 1)

\* A record with merchant_name substituted for a missing raw_description
\* and "Unknown" for a missing payment_mode.
WithDefaults(r) ==
    [k \in DOMAIN r \cup {"raw_description", "payment_mode"} |->
        IF k \in DOMAIN r THEN r[k]
        ELSE IF k = "raw_description" THEN r["merchant_name"]
        ELSE "Unknown"]

\* The object literal that carries the defaulted fields of tok.
DefaultedObj(tok) ==
    CHOOSE d \in Objects :
        /\ DOMAIN ObjRec(d) = DOMAIN ObjRec(tok) \cup {"raw_description", "payment_mode"}
        /\ \A k \in DOMAIN ObjRec(d) : ObjRec(d)[k] = WithDefaults(ObjRec(tok))[k]

ApplyDefaults(v) ==
    ListVal([k \in 1..Len(v.items) |->
                IF v.items[k].t = "obj" THEN ObjVal(DefaultedObj(v.items[k].o))
                ELSE v.items[k]])

\* The sequence of candidate records returned for one collaborator outcome:
\* the sanitized span is parsed and the defaults are applied; a collaborator
\* failure, a response without a span and a span that does not parse give
\* an empty sequence.
parse_text_chunk(outcome) ==
    IF outcome.kind # "ok" THEN EmptyList
    ELSE LET parsed == json_loads(SanitizeSpan(outcome.text))
         IN  IF parsed.ok /\ parsed.val.t = "list" THEN ApplyDefaults(parsed.val)
             ELSE EmptyList


\* ------------------------------------------------------------------- state
VARIABLES
    store,         \* the committed rows of table transactions, in insert order
    store0,        \* the committed rows when the running upload was started
    pc,            \* "idle" | "loop": position of the Process & Save handler
    i,             \* loop variable of `for i in range(max_pages)`
    max_pages,     \* main.py:83
    total_added,   \* main.py:85,109
    open_conns,    \* store connections opened and not closed
    new_data,      \* value returned by parse_text_chunk for the last page
    last_batch,    \* data_tuples of the most recently committed batch
    rowcount,      \* cur.rowcount after the last executemany
    report,        \* what the handler showed: st.success / warning / error
    last,          \* what the last step of the handler did
    repeat,        \* the batch just committed equals the batch committed before it
    metrics,       \* value returned by the last get_total_metrics()
    pdf,           \* extractor input: the text of each page of the PDF
    pdf_ok,        \* extractor input: pypdf can read the file
    outcome,       \* extractor input: what the LLM collaborator answers
    text_content,  \* pdf_parser.py:22-25
    result,        \* value returned by extract_transactions_from_pdf
    epc            \* "start" | "prompted" | "done": position in the extractor

uploadVars == <<store, store0, pc, i, max_pages, total_added, open_conns,
                new_data, last_batch, rowcount, report, last, repeat, metrics>>
extractVars == <<pdf, pdf_ok, outcome, text_content, result, epc>>
vars == <<store, store0, pc, i, max_pages, total_added, open_conns,
          new_data, last_batch, rowcount, report, last, repeat, metrics,
          pdf, pdf_ok, outcome, text_content, result, epc>>

NoReport == [kind |-> "none", count |-> 0]
NetworkError == [kind |-> "error", text |-> <<>>]
Response(text) == [kind |-> "ok", text |-> text]

\* ------------------------------------------------------------ input spaces
\* What the collaborator may answer for a page of an upload.
PageOutcomes ==
    { NetworkError,
      Response(<<"p">>),
      Response(<<"[", "]">>),
      Response(<<"p", "Fj", "[", "o2", "]", "F">>),
      Response(<<"[", "o1", ",", "o1", "]">>),
      Response(<<"[", "o1", ",", "o5", "]">>),
      Response(<<"[", "o3", "]">>),
      Response(<<"[", "o5", ",", "o4", "]">>),
      Response(<<"o1">>) }

ExtractTokens == {"[", "]", ",", "o2", "t", "Fj", "F", "p"}
AllResponses == {Response(t) : t \in SeqsUpTo(ExtractTokens, MaxRespLen)}
FewOutcomes == {NetworkError, Response(<<"p", "Fj", "[", "o2", "]", "F">>)}

PageTexts == { <<"a", "\n", "1", "\n", "a">>, <<"a">>, <<"1", "a">> }
AllPdfs == SeqsUpTo(PageTexts, MaxPdfPages)
FewPdfs == { << <<"a", "\n", "1", "\n", "a">> >> }

\* -------------------------------------------------------------------- Init
UploadIdle ==
    /\ store = <<>> /\ store0 = <<>>
    /\ i = 0 /\ max_pages = 0 /\ total_added = 0 /\ open_conns = 0
    /\ new_data = EmptyList /\ last_batch = <<>> /\ rowcount = -1
    /\ report = NoReport /\ last = "init" /\ repeat = FALSE /\ metrics = <<0, 0>>

ExtractOff ==
    /\ pdf = <<>> /\ pdf_ok = TRUE /\ outcome = NetworkError
    /\ text_content = <<>> /\ result = EmptyList /\ epc = "off"

Init == UploadIdle /\ pc = "idle" /\ ExtractOff

InitExtract ==
    /\ UploadIdle /\ pc = "off"
    /\ epc = "start" /\ text_content = <<>> /\ result = EmptyList
    /\ \/ pdf \in AllPdfs /\ pdf_ok \in BOOLEAN /\ outcome \in FewOutcomes
       \/ pdf \in FewPdfs /\ pdf_ok = TRUE /\ outcome \in AllResponses

\* ------------------------------------------------------- extractor actions
\* pdf_parser.py:19-25 (and 73-75 when pypdf raises).
ReadPdf ==
    /\ epc = "start"
    /\ IF pdf_ok
       THEN /\ text_content' = ReadPages(pdf, 0)
            /\ epc' = "prompted"
            /\ UNCHANGED result
       ELSE /\ result' = EmptyList
            /\ epc' = "done"
            /\ UNCHANGED text_content
    /\ UNCHANGED <<pdf, pdf_ok, outcome>>
    /\ UNCHANGED uploadVars

\* pdf_parser.py:27-75: the prompt is sent, the answer sanitized and parsed.
AskAndParse ==
    /\ epc = "prompted"
    /\ result' = ParseResponse(outcome)
    /\ epc' = "done"
    /\ UNCHANGED <<pdf, pdf_ok, outcome, text_content>>
    /\ UNCHANGED uploadVars

NextExtract == ReadPdf \/ AskAndParse
SpecExtract == InitExtract /\ [][NextExtract]_vars


\* ---------------------------------------------------------- upload actions
\* main.py:72-85: the button is pressed with a PDF of n pages, which starts
\* a new run of the script: the values of the previous run (new_data, the
\* metrics shown) are gone and the new cursor's rowcount is -1.  When
\* get_db_connection() returns None, conn.cursor() raises (main.py:78); when
\* pypdf cannot read the file, PdfReader raises (main.py:82) with the
\* connection already open.  Both end in the except branch (main.py:124-125)
\* before max_pages and total_added are assigned.
Click ==
    /\ pc = "idle"
    /\ open_conns < MaxLeaked
    /\ \E n \in 0..MaxUploadPages, connected \in BOOLEAN, readable \in BOOLEAN :
         IF ~connected
         THEN /\ report' = [kind |-> "error", count |-> 0]
              /\ last' = "NoConn"
              /\ UNCHANGED <<open_conns, max_pages, total_added, i, pc>>
         ELSE IF ~readable
         THEN /\ open_conns' = open_conns + 1
              /\ report' = [kind |-> "error", count |-> 0]
              /\ last' = "PdfError"
              /\ UNCHANGED <<max_pages, total_added, i, pc>>
         ELSE /\ open_conns' = open_conns + 1
              /\ max_pages' = Min(n, UploadPageCap)
              /\ total_added' = 0
              /\ i' = 0
              /\ pc' = "loop"
              /\ report' = NoReport
              /\ last' = "click"
    /\ store0' = store
    /\ new_data' = EmptyList
    /\ rowcount' = -1
    /\ metrics' = <<0, 0>>
    /\ UNCHANGED <<store, last_batch, repeat>>
    /\ UNCHANGED extractVars

\* main.py:124-125: the except branch; cur.close() and conn.close()
\* (main.py:113-114) are not reached.
Raise(kind) ==
    /\ report' = [kind |-> "error", count |-> 0]
    /\ last' = kind
    /\ pc' = "idle"
    /\ UNCHANGED <<i, total_added, open_conns, last_batch, repeat>>

\* main.py:87-111: one iteration of the page loop.  The inputs are whether
\* pypdf extracts the page's text (main.py:88), the collaborator's answer
\* for the page, and the store's behaviour: executemany may raise at one of
\* its executions (the cursor's rowcount is reset to -1 when executemany is
\* entered and holds the total only once it returns), or executemany
\* returns and conn.commit() raises.
PageStep ==
    /\ pc = "loop"
    /\ i < max_pages
    /\ \E pageReadable \in BOOLEAN, answer \in PageOutcomes,
          storeFails \in {"no", "execute", "commit"} :
         LET parsed == parse_text_chunk(answer)
             built == BuildTuples(Elements(parsed))
             done == ExecuteMany(store, built.tuples)
         IN  IF ~pageReadable
             THEN /\ Raise("PageError")
                  /\ UNCHANGED <<store, new_data, rowcount>>
             ELSE
             /\ new_data' = parsed
             /\ IF ~Truthy(parsed)
                THEN /\ i' = i + 1
                     /\ last' = "skip"
                     /\ UNCHANGED <<store, total_added, last_batch, rowcount,
                                    repeat, report, pc, open_conns>>
                ELSE IF built.raised # "none"
                THEN /\ Raise(built.raised)
                     /\ UNCHANGED <<store, rowcount>>
                ELSE IF storeFails = "execute"
                THEN /\ \E j \in 0..(Len(built.tuples) - 1) :
                            store' = AbortedBatch(store, built.tuples, j)
                     /\ Raise("StoreError")
                     /\ rowcount' = -1
                ELSE IF storeFails = "commit"
                THEN /\ store' = AbortedBatch(store, built.tuples, Len(built.tuples))
                     /\ rowcount' = done.rowcount
                     /\ Raise("StoreError")
                ELSE /\ store' = done.table
                     /\ rowcount' = done.rowcount
                     /\ total_added' = total_added + done.rowcount
                     /\ last_batch' = built.tuples
                     /\ repeat' = (built.tuples = last_batch)
                     /\ i' = i + 1
                     /\ last' = "commit"
                     /\ UNCHANGED <<report, pc, open_conns>>
    /\ UNCHANGED <<store0, max_pages, metrics>>
    /\ UNCHANGED extractVars

\* main.py:113-122: the loop has ended; the connection is closed and the
\* count is shown.
Finish ==
    /\ pc = "loop"
    /\ i = max_pages
    /\ open_conns' = open_conns - 1
    /\ report' = IF total_added > 0
                 THEN [kind |-> "success", count |-> total_added]
                 ELSE [kind |-> "warning", count |-> 0]
    /\ last' = "finish"
    /\ pc' = "idle"
    /\ UNCHANGED <<store, store0, i, max_pages, total_added, new_data,
                   last_batch, rowcount, repeat, metrics>>
    /\ UNCHANGED extractVars

RECURSIVE SumAmount(_)
SumAmount(tbl) == IF tbl = <<>> THEN 0 ELSE Head(tbl).amount + SumAmount(Tail(tbl))

\* main.py:21-36: get_total_metrics().  Without a connection it returns
\* (0, 0); when the query raises, conn.close() (main.py:34) is not reached.
GetTotalMetrics ==
    /\ pc = "idle"
    /\ \E connected \in BOOLEAN, queryFails \in BOOLEAN :
         IF ~connected
         THEN /\ metrics' = <<0, 0>>
              /\ last' = "metrics"
              /\ UNCHANGED open_conns
         ELSE IF queryFails
         THEN /\ open_conns < MaxLeaked
              /\ open_conns' = open_conns + 1
              /\ last' = "metrics_raised"
              /\ UNCHANGED metrics
         ELSE /\ metrics' = <<Len(store), SumAmount(store)>>
              /\ last' = "metrics"
              /\ UNCHANGED open_conns
    /\ UNCHANGED <<store, store0, pc, i, max_pages, total_added, new_data,
                   last_batch, rowcount, repeat, report>>
    /\ UNCHANGED extractVars

Next == Click \/ PageStep \/ Finish \/ GetTotalMetrics
Spec == Init /\ [][Next]_vars


\* ============================================================== properties

\* ---- C1 ----
\* C1: after any sequence of uploads, no two rows of the persisted table
\* have the same natural key (date, raw_description, amount).
C1_NaturalKeyUnique ==
    \A a, b \in 1..Len(store) :
        a # b => <<store[a].date, store[a].raw_description, store[a].amount>>
                 # <<store[b].date, store[b].raw_description, store[b].amount>>

\* A batch was committed of which at least one record met a persisted row
\* with its key, while the table holds rows of several keys.
C1_Witness ==
    /\ last = "commit"
    /\ rowcount < Len(last_batch)
    /\ Len(store) >= 2
    /\ Len(store0) >= 1

\* ---- C2 ----
\* C2: the count shown by a finished upload is the number of rows the table
\* gained since the upload started, and an upload that reports no new
\* transactions left the table as it was.
C2_ReportedCountIsRowsGained ==
    /\ report.kind = "success" => report.count = Len(store) - Len(store0)
    /\ report.kind = "warning" => Len(store) = Len(store0)

\* An upload finished whose last batch had two candidates, one of them
\* already persisted before the upload, and it reported one new row.
C2_Witness ==
    /\ last = "finish"
    /\ report = [kind |-> "success", count |-> 1]
    /\ Len(store0) >= 1
    /\ Len(last_batch) = 2

\* ---- C3 ----
\* C3: committing a batch equal to the batch committed just before it leaves
\* the table unchanged and inserts zero rows.
C3_IngestIdempotent ==
    [][(last' = "commit" /\ repeat') => (store' = store /\ rowcount' = 0)]_vars

\* The same batch of two distinct records was committed twice in a row.
C3_Witness ==
    /\ last = "commit"
    /\ repeat
    /\ Len(last_batch) = 2
    /\ last_batch[1] # last_batch[2]
    /\ rowcount = 0

\* ---- C4 ----
HasParseableList(text) ==
    \E a, b \in 1..Len(text) :
        /\ a < b /\ text[a] = "[" /\ text[b] = "]"
        /\ json_loads(SubSeq(text, a, b)).ok

\* C4: when the collaborator fails, or its response carries no parseable
\* JSON list, the extractor returns an empty sequence.
C4_FailSoftEmpty ==
    (epc = "done" /\ (~pdf_ok \/ outcome.kind # "ok" \/ ~HasParseableList(outcome.text)))
        => result = EmptyList

\* ---- C5 ----
Wrapping == {"p", "F", "Fj"}

\* text is one valid JSON list between prose and code-fence markup.
WrappedList(text, a, b) ==
    /\ 1 <= a /\ a < b /\ b <= Len(text)
    /\ \A k \in 1..(a - 1) : text[k] \in Wrapping
    /\ \A k \in (b + 1)..Len(text) : text[k] \in Wrapping
    /\ json_loads(SubSeq(text, a, b)).ok
    /\ json_loads(SubSeq(text, a, b)).val.t = "list"

\* C5: for a response that is one valid JSON list wrapped in prose or
\* code-fence markup, the extractor returns exactly that list.
C5_ReturnsExactlyTheList ==
    (epc = "done" /\ pdf_ok /\ outcome.kind = "ok") =>
        \A a, b \in 1..Len(outcome.text) :
            WrappedList(outcome.text, a, b)
                => result = json_loads(SubSeq(outcome.text, a, b)).val

\* ---- C6 ----
FromCandidate(row, c) ==
    /\ row.date = c.date
    /\ row.merchant_name = c.merchant_name
    /\ row.raw_description = IF "raw_description" \in DOMAIN c
                             THEN c.raw_description ELSE c.merchant_name
    /\ row.payment_mode = IF "payment_mode" \in DOMAIN c
                          THEN c.payment_mode ELSE "Unknown"
    /\ row.amount = c.amount
    /\ row.category = c.category

\* C6: every record the extractor returns already carries raw_description
\* (merchant_name where the response omitted it) and payment_mode ("Unknown"
\* where omitted), and the tuple the ingest loop builds from it for the
\* insert carries those values.
C6_ExtractorAppliesDefaults ==
    (epc = "done" /\ result.t = "list") =>
        \A k \in 1..Len(result.items) :
            (result.items[k].t = "obj"
             /\ RequiredKeys \subseteq DOMAIN ObjRec(result.items[k].o)) =>
                /\ {"raw_description", "payment_mode"}
                       \subseteq DOMAIN ObjRec(result.items[k].o)
                /\ FromCandidate(ToTuple(ObjRec(result.items[k].o)),
                                 ObjRec(result.items[k].o))

\* ---- C7 ----
\* C7: no page's malformed extraction result (a value that is not a list of
\* records, a record without a required field) raises into the ingest loop
\* and ends the upload.
C7_PageResultNeverEndsUpload == last \notin {"KeyError", "TypeError"}

\* ---- C8 ----
\* C8: when the store fails during the insert of a batch, the persisted
\* table is what the earlier batches left, the loop ends without attempting
\* another page, and the handler reports an error.
C8_BatchIsUnitOfWork ==
    [][last' = "StoreError" =>
          /\ store' = store
          /\ pc' = "idle"
          /\ i' = i
          /\ report'.kind = "error"]_vars

\* The store failed on a later batch of an upload whose earlier batches had
\* inserted rows, with pages still left to scan.
C8_Witness ==
    /\ last = "StoreError"
    /\ i >= 1
    /\ Len(store) > Len(store0)
    /\ i + 1 < max_pages

\* ---- C9 ----
RECURSIVE SplitLines(_, _)
SplitLines(text, cur) ==
    IF text = <<>> THEN <<cur>>
    ELSE IF Head(text) = "\n" THEN <<cur>> \o SplitLines(Tail(text), <<>>)
    ELSE SplitLines(Tail(text), Append(cur, Head(text)))

HasDigit(line) == \E k \in 1..Len(line) : line[k] = "1"

RECURSIVE DigitLines(_)
DigitLines(lines) ==
    IF lines = <<>> THEN <<>>
    ELSE IF HasDigit(Head(lines)) THEN <<Head(lines)>> \o DigitLines(Tail(lines))
    ELSE DigitLines(Tail(lines))

RECURSIVE NonEmptyLines(_)
NonEmptyLines(lines) ==
    IF lines = <<>> THEN <<>>
    ELSE IF Head(lines) # <<>> THEN <<Head(lines)>> \o NonEmptyLines(Tail(lines))
    ELSE NonEmptyLines(Tail(lines))

\* C9: the text block handed to the collaborator consists of exactly the
\* lines of the page text that contain a decimal digit, in input order.
C9_PromptHoldsDigitLinesOnly ==
    epc \in {"prompted", "done"} /\ pdf_ok =>
        NonEmptyLines(SplitLines(PromptText(text_content), <<>>))
            = DigitLines(SplitLines(ReadPages(pdf, 0), <<>>))

\* ---- C10 ----
\* C10: when no upload is running, no store connection is open.
C10_NoConnectionLeftOpen == pc = "idle" => open_conns = 0

====
